---- MODULE Spec2Model ----
(***************************************************************************)
(* A model of bdsync-manager.py: the task loop of the script, process_task *)
(* (settings loading, validation, the optional LVM snapshot and its        *)
(* try/finally removal) and run_bdsync (temp file, create, size, apply,    *)
(* temp-file removal).  External programs and the filesystem are the       *)
(* environment: every call of one ends with an outcome chosen among the    *)
(* outcomes the call can have (success, failure, KeyboardInterrupt).       *)
(***************************************************************************)
EXTENDS Integers, Sequences, FiniteSets, TLC

\* Largest number of tasks in the task list of one run.
MaxTasks == 2
MaxSelectors == 2
MaxLimbs == 8
MaxDigits == 4
MaxTokenLen == 2

-----------------------------------------------------------------------------
(* Configuration values.  A task's configuration is a record with one      *)
(* field per recognised key; Absent marks a key that the section (and      *)
(* DEFAULT) does not set.                                                  *)

Absent == "<absent>"

\* The filesystem the validation looks at.
Files == {"/usr/local/bin/bdsync"}
Devices == {"/dev/vg0/root"}
Dirs == {"/backup", "/tmp"}

isfile(p) == p \in Files
exists(p) == p \in Files \cup Devices \cup Dirs
isdir(p) == p \in Dirs

dirname(p) ==
    CASE p = "/backup/root.img" -> "/backup"
      [] p = "/nodir/root.img" -> "/nodir"
      [] OTHER -> ""

\* The characters of the snapshot sizes the configurations use.
Chars(s) ==
    CASE s = "5G" -> <<"5", "G">>
      [] s = "512" -> <<"5", "1", "2">>
      [] s = "5GB" -> <<"5", "G", "B">>
      [] s = "G5" -> <<"G", "5">>
      [] OTHER -> <<>>

Digits == {"0", "1", "2", "3", "4", "5", "6", "7", "8", "9"}
Units == {"b", "B", "s", "S", "k", "K", "m", "M", "g", "G", "t", "T", "p", "P", "e", "E"}

\* LVM_SIZE_REGEX.match(s): ^[0-9]+[bBsSkKmMgGtTpPeE]?$
LVM_SIZE_REGEX(s) ==
    LET cs == Chars(s)
        len == Len(cs)
    IN  \E k \in 1..len :
            /\ \A j \in 1..k : cs[j] \in Digits
            /\ \/ k = len
               \/ k = len - 1 /\ cs[len] \in Units

\* The configurations of a task.  lvm_snapshot_name is read only when
\* snapshotting is enabled, and is left unset otherwise.
Configs ==
  { c \in
    [ local_bdsync_bin : {Absent, "/usr/local/bin/bdsync", "/opt/none/bdsync"},
      remote_bdsync_bin : {Absent, "/usr/local/bin/bdsync"},
      source_path : {Absent, "/dev/vg0/root", "/dev/vg0/gone"},
      target_path : {Absent, "/backup/root.img", "/nodir/root.img"},
      disabled : {Absent, "yes", "maybe"},
      connection_command : {Absent, "ssh backup@target"},
      target_patch_dir : {Absent, "/tmp", "/nodir"},
      lvm_snapshot_enabled : {Absent, "yes", "maybe"},
      lvm_snapshot_size : {Absent, "5G", "5GB"},
      lvm_snapshot_name : {Absent, "nightly"} ] :
    c.lvm_snapshot_enabled # "yes" => c.lvm_snapshot_name = Absent }

\* The volume groups lvs may name.
VolumeGroups == {"vg0", "vg1"}

-----------------------------------------------------------------------------
(* Exceptions: the class and the step that raised it.                      *)

NoExc == [type |-> "none", at |-> "none"]
Exc(t, where) == [type |-> t, at |-> where]
KeyboardInterrupt(where) == Exc("KeyboardInterrupt", where)

-----------------------------------------------------------------------------
(* load_settings                                                           *)

NoSettings ==
    [ local_bdsync_bin |-> Absent, remote_bdsync_bin |-> Absent,
      source_path |-> Absent, target_path |-> Absent, disabled |-> FALSE,
      connection_command |-> Absent, target_patch_dir |-> Absent,
      lvm |-> FALSE, snapshot_size |-> Absent, snapshot_name |-> Absent,
      vg_name |-> Absent ]

\* configparser's boolean states; any other value makes getboolean raise ValueError.
BooleanStates == {"yes", "no"}
IsBoolean(v) == v = Absent \/ v \in BooleanStates
getboolean(v, fallback) == IF v = Absent THEN fallback ELSE v = "yes"

\* The class of the exception load_settings raises on configuration c, or "none".
\* config[key] on a section raises KeyError, which the except clause
\* (configparser.NoOptionError) does not catch.
load_settings_error(c) ==
    IF c.local_bdsync_bin = Absent THEN "KeyError"
    ELSE IF c.remote_bdsync_bin = Absent THEN "KeyError"
    ELSE IF c.source_path = Absent THEN "KeyError"
    ELSE IF c.target_path = Absent THEN "KeyError"
    ELSE IF ~IsBoolean(c.disabled) THEN "ValueError"
    ELSE IF ~IsBoolean(c.lvm_snapshot_enabled) THEN "ValueError"
    ELSE IF getboolean(c.lvm_snapshot_enabled, FALSE) /\ c.lvm_snapshot_size = Absent
         THEN "KeyError"
    ELSE "none"

\* The settings load_settings returns on a configuration it accepts.
load_settings(c) ==
    [ local_bdsync_bin |-> c.local_bdsync_bin,
      remote_bdsync_bin |-> c.remote_bdsync_bin,
      source_path |-> c.source_path,
      target_path |-> c.target_path,
      disabled |-> getboolean(c.disabled, FALSE),
      connection_command |-> c.connection_command,
      target_patch_dir |-> c.target_patch_dir,
      lvm |-> getboolean(c.lvm_snapshot_enabled, FALSE),
      snapshot_size |-> IF getboolean(c.lvm_snapshot_enabled, FALSE)
                        THEN c.lvm_snapshot_size ELSE Absent,
      snapshot_name |-> IF ~getboolean(c.lvm_snapshot_enabled, FALSE) THEN Absent
                        ELSE IF c.lvm_snapshot_name = Absent THEN "bdsync-snapshot"
                        ELSE c.lvm_snapshot_name,
      vg_name |-> Absent ]

-----------------------------------------------------------------------------
(* validate_settings                                                       *)

\* "if not settings['connection_command']": local transfer.
IsRemote(s) == s.connection_command # Absent

\* validate_settings without its check of the source device.
validate_without_source_check(s) ==
    IF ~isfile(s.local_bdsync_bin) THEN "TaskSettingsError"
    ELSE IF s.lvm /\ ~LVM_SIZE_REGEX(s.snapshot_size) THEN "TaskSettingsError"
    ELSE "none"

\* The checks before the volume-group lookup.
validate_before_lvs(s) ==
    IF ~isfile(s.local_bdsync_bin) THEN "TaskSettingsError"
    ELSE IF ~exists(s.source_path) THEN "TaskSettingsError"
    ELSE IF s.lvm /\ ~LVM_SIZE_REGEX(s.snapshot_size) THEN "TaskSettingsError"
    ELSE "none"

\* The checks after it: those of a local transfer.  os.path.isdir(None)
\* raises TypeError.
validate_local(s) ==
    IF IsRemote(s) THEN "none"
    ELSE IF ~exists(dirname(s.target_path)) THEN "TaskSettingsError"
    ELSE IF s.target_patch_dir = Absent THEN "TypeError"
    ELSE IF ~isdir(s.target_patch_dir) THEN "TaskSettingsError"
    ELSE "none"

-----------------------------------------------------------------------------
(* The state of one run of the script.                                     *)

VARIABLES
    pc,           \* where the script is
    sections,     \* config.sections(): the section names, in file order
    selectors,    \* args.tasks: the --task names, <<>> when none was given
    tasks,        \* the task list
    n,            \* the number of tasks in the task list
    i,            \* the number of tasks the loop has started
    config,       \* config[task] of the current task
    settings,     \* the settings of the current task, once loaded
    real_source,  \* the source process_task hands to run_bdsync
    exc,          \* the exception that is propagating, or NoExc
    pipeExc,      \* the exception run_bdsync ended with, or NoExc
    bdsync,       \* run_bdsync of the current task: "notrun", "running", "ended"
    calls,        \* the external operations of the current task, with their outcomes
    snapshots,    \* the snapshots created by the script that exist
    tempfiles,    \* the staging files created by the script that exist
    interrupted,  \* a KeyboardInterrupt has arrived during the run
    propagated,   \* the exceptions that left process_task
    num,          \* sizeof_fmt: num, in base 1024, whole part and fraction
    unit,         \* sizeof_fmt: how many units the loop has gone past
    size_text,    \* sizeof_fmt: what it returned
    remote        \* run_bdsync: the command of a step, as composed

vars == <<pc, sections, selectors, tasks, n, i, config, settings, real_source, exc, pipeExc, bdsync, calls,
          snapshots, tempfiles, interrupted, propagated, num, unit, size_text, remote>>

Call(cmd, out) == [cmd |-> cmd, out |-> out]

\* The name of each step's operation, by transfer mode.
TempCmd(s) == IF IsRemote(s) THEN "mktemp" ELSE "NamedTemporaryFile"
SizeCmd(s) == IF IsRemote(s) THEN "stat" ELSE "getsize"
RemoveCmd(s) == IF IsRemote(s) THEN "rm" ELSE "unlink"

\* The operations that run a subprocess (plumbum.local[...]).
Subprocesses == {"lvs", "lvcreate", "lvremove", "mktemp", "bdsync", "stat",
                 "bdsync --patch", "rm"}

\* The exception a failing operation raises.
FailureOf(cmd) ==
    IF cmd \in Subprocesses THEN Exc("ProcessExecutionError", cmd)
    ELSE Exc("OSError", cmd)

\* What the task selection leaves alone.
args == <<sections, selectors>>

\* Section names are numbered; a configuration file has the sections 1..m.
SectionLists == {[k \in 1..m |-> k] : m \in 0..MaxTasks}

\* The --task lists: names of sections and names of no section, where the
\* occurrences of one name follow each other.
Selectors ==
    { s \in UNION {[1..l -> 1..(MaxTasks + 1)] : l \in 0..MaxSelectors} :
        \A a, b, c \in DOMAIN s : (a < b /\ b < c /\ s[a] = s[c]) => s[b] = s[a] }

\* No section has been read.
NoConfig == CHOOSE c \in Configs : \A k \in DOMAIN c : c[k] = Absent

\* sizeof_fmt is not running, no command is looked at.
fmt == <<num, unit, size_text, remote>>
NoCommand == [step |-> "none", tokens |-> <<>>, text |-> <<>>, argv |-> <<>>]
NoNum == [whole |-> <<0>>, frac |-> <<>>]

\* The state when the configuration file has been read, for the --task lists in S.
InitWith(S) ==
    /\ pc = "select"
    /\ num = NoNum
    /\ unit = 0
    /\ size_text = Absent
    /\ remote = NoCommand
    /\ sections \in SectionLists
    /\ selectors \in S
    /\ tasks = <<>>
    /\ n = 0
    /\ i = 0
    /\ config = NoConfig
    /\ settings = NoSettings
    /\ real_source = Absent
    /\ exc = NoExc
    /\ pipeExc = NoExc
    /\ bdsync = "notrun"
    /\ calls = <<>>
    /\ snapshots = 0
    /\ tempfiles = 0
    /\ interrupted = FALSE
    /\ propagated = {}

\* A run without --task.
Init == InitWith({<<>>})

\* A run with any --task list.
SelectInit == InitWith(Selectors)

-----------------------------------------------------------------------------
(* The control flow of process_task and of the task loop.                  *)

\* process_task without its test of settings["disabled"].
AfterLoadIgnoringDisabled(s) == "validate"

\* After load_settings: a disabled task returns, the others are validated.
AfterLoad(s) == IF s.disabled THEN "loop" ELSE "validate"

\* After validate_settings: the snapshot, when requested, else the pipeline.
AfterValidate(s) == IF s.lvm THEN "lvcreate" ELSE "mktemp"

\* process_task removing the snapshot after run_bdsync returns, with no
\* try/finally: an exception of run_bdsync skips the removal.
AfterPipelineWithoutFinally(s, e) ==
    IF e # NoExc THEN "raised"
    ELSE IF s.lvm THEN "lvremove"
    ELSE "loop"

\* process_task removing the snapshot in an `except Exception` clause (and
\* after a normal return): a KeyboardInterrupt, no Exception, skips it.
AfterPipelineExceptException(s, e) ==
    IF s.lvm /\ e.type # "KeyboardInterrupt" THEN "lvremove"
    ELSE IF e = NoExc THEN "loop"
    ELSE "raised"

\* process_task removing the snapshot on the error path only.
AfterPipelineCleanupOnErrorOnly(s, e) ==
    IF e = NoExc THEN "loop"
    ELSE IF s.lvm THEN "lvremove"
    ELSE "raised"

\* The finally clause around run_bdsync, which ended with e (NoExc: returned).
AfterPipeline(s, e) ==
    IF s.lvm THEN "lvremove"
    ELSE IF e = NoExc THEN "loop"
    ELSE "raised"

\* A task loop whose inner try catches every exception, KeyboardInterrupt too.
HandlerCatchingAll(e) == "loop"

\* The except clauses of the task loop, on an exception that left process_task.
Handler(e) ==
    IF e.type = "TaskProcessingError" THEN "loop"
    ELSE IF e.type = "KeyboardInterrupt" THEN "cancelled"
    ELSE "crashed"

\* prepare_lvm_snapshot called inside the try block: its failure runs the
\* finally clause.
AfterSnapshotFailureInsideTry(s) == "lvremove"

\* prepare_lvm_snapshot is called before the try block: when it raises, the
\* exception leaves process_task at once.
AfterSnapshotFailure(s) == "raised"

\* process_task raises e, outside the try block.
RaiseFromTask(e) == pc' = "raised" /\ exc' = e

\* run_bdsync ends with e: the finally clause of process_task takes over.
EndPipeline(e) ==
    /\ bdsync' = "ended"
    /\ pipeExc' = e
    /\ exc' = e
    /\ pc' = AfterPipeline(settings, e)

\* tasks: the --task names that are sections, in their order, or every section.
Select(secs, sel) ==
    IF sel # <<>>
    THEN SelectSeq(sel, LAMBDA task : \E k \in DOMAIN secs : secs[k] = task)
    ELSE secs

\* if args.tasks: ... else: tasks = config.sections()
SelectTasks ==
    /\ pc = "select"
    /\ tasks' = Select(sections, selectors)
    /\ n' = Len(tasks')
    /\ pc' = "loop"
    /\ UNCHANGED <<fmt, args, i, config, settings, real_source, exc, pipeExc, bdsync,
                   calls, snapshots, tempfiles, interrupted, propagated>>

\* for task in tasks: process_task(config[task]).  A section named twice is
\* read from the same file both times.
StartTask ==
    /\ pc = "loop"
    /\ i < n
    /\ IF i > 0 /\ tasks[i + 1] = tasks[i]
       THEN config' = config
       ELSE \E c \in Configs : config' = c
    /\ i' = i + 1
    /\ pc' = "load"
    /\ settings' = NoSettings
    /\ real_source' = Absent
    /\ exc' = NoExc
    /\ pipeExc' = NoExc
    /\ bdsync' = "notrun"
    /\ calls' = <<>>
    /\ UNCHANGED <<fmt, args, tasks, n, snapshots, tempfiles, interrupted, propagated>>

\* The loop is over: the script ends.
EndRun ==
    /\ pc = "loop"
    /\ i = n
    /\ pc' = "done"
    /\ UNCHANGED <<fmt, args, tasks, n, i, config, settings, real_source, exc, pipeExc, bdsync,
                   calls, snapshots, tempfiles, interrupted, propagated>>

\* settings = load_settings(config); if settings["disabled"]: return
LoadSettings ==
    /\ pc = "load"
    /\ \E intr \in BOOLEAN :
         /\ interrupted' = (interrupted \/ intr)
         /\ IF intr
            THEN settings' = settings /\ RaiseFromTask(KeyboardInterrupt("load_settings"))
            ELSE IF load_settings_error(config) # "none"
            THEN /\ settings' = settings
                 /\ RaiseFromTask(Exc(load_settings_error(config), "load_settings"))
            ELSE /\ settings' = load_settings(config)
                 /\ exc' = NoExc
                 /\ pc' = AfterLoad(load_settings(config))
    /\ UNCHANGED <<fmt, args, tasks, n, i, config, real_source, pipeExc, bdsync, calls, snapshots,
                   tempfiles, propagated>>

\* The end of validate_settings and the branch of process_task after it.
FinishValidate(s) ==
    IF validate_local(s) # "none"
    THEN /\ RaiseFromTask(Exc(validate_local(s), "validate_settings"))
         /\ UNCHANGED <<real_source, bdsync>>
    ELSE /\ pc' = AfterValidate(s)
         /\ exc' = NoExc
         /\ IF AfterValidate(s) = "mktemp"
            THEN real_source' = s.source_path /\ bdsync' = "running"
            ELSE UNCHANGED <<real_source, bdsync>>

\* validate_settings up to the volume-group lookup (and to its end without one).
ValidateSettings ==
    /\ pc = "validate"
    /\ \E intr \in BOOLEAN :
         /\ interrupted' = (interrupted \/ intr)
         /\ IF intr
            THEN /\ RaiseFromTask(KeyboardInterrupt("validate_settings"))
                 /\ UNCHANGED <<real_source, bdsync>>
            ELSE IF validate_before_lvs(settings) # "none"
            THEN /\ RaiseFromTask(Exc(validate_before_lvs(settings), "validate_settings"))
                 /\ UNCHANGED <<real_source, bdsync>>
            ELSE IF settings.lvm
            THEN pc' = "lvs" /\ UNCHANGED <<exc, real_source, bdsync>>
            ELSE FinishValidate(settings)
    /\ UNCHANGED <<fmt, args, tasks, n, i, config, settings, pipeExc, calls, snapshots, tempfiles,
                   propagated>>

\* vg_name = plumbum.local["lvs"](...).strip() and the rest of validate_settings.
LookupVolumeGroup ==
    /\ pc = "lvs"
    /\ \E out \in {"ok", "empty", "fail", "interrupt"} :
         /\ calls' = Append(calls, Call("lvs", out))
         /\ interrupted' = (interrupted \/ out = "interrupt")
         /\ CASE out = "interrupt" ->
                   /\ RaiseFromTask(KeyboardInterrupt("lvs"))
                   /\ UNCHANGED <<settings, real_source, bdsync>>
              [] out = "fail" ->
                   /\ RaiseFromTask(FailureOf("lvs"))
                   /\ UNCHANGED <<settings, real_source, bdsync>>
              [] out = "empty" ->
                   /\ RaiseFromTask(Exc("TaskSettingsError", "validate_settings"))
                   /\ UNCHANGED <<settings, real_source, bdsync>>
              [] out = "ok" ->
                   /\ \E vg \in VolumeGroups :
                        settings' = [settings EXCEPT !.vg_name = vg]
                   /\ FinishValidate(settings')
    /\ UNCHANGED <<fmt, args, tasks, n, i, config, pipeExc, snapshots, tempfiles, propagated>>

\* process_task handing the configured source to run_bdsync although the
\* snapshot was made.
prepare_lvm_snapshot_unused(s) == s.source_path

\* What prepare_lvm_snapshot returns: the device path of the snapshot.
prepare_lvm_snapshot(s) == "/dev/" \o s.vg_name \o "/" \o s.snapshot_name

\* real_source = prepare_lvm_snapshot(...): lvcreate, before the try block.
\* An interrupted lvcreate may or may not have created the snapshot.
PrepareLvmSnapshot ==
    /\ pc = "lvcreate"
    /\ \E out \in {"ok", "fail", "interrupt"} :
         /\ calls' = Append(calls, Call("lvcreate", out))
         /\ interrupted' = (interrupted \/ out = "interrupt")
         /\ CASE out = "ok" ->
                   /\ snapshots' = snapshots + 1
                   /\ real_source' = prepare_lvm_snapshot(settings)
                   /\ bdsync' = "running"
                   /\ pc' = "mktemp"
                   /\ exc' = NoExc
              [] out = "fail" ->
                   /\ pc' = AfterSnapshotFailure(settings)
                   /\ exc' = FailureOf("lvcreate")
                   /\ UNCHANGED <<snapshots, real_source, bdsync>>
              [] out = "interrupt" ->
                   /\ pc' = AfterSnapshotFailure(settings)
                   /\ exc' = KeyboardInterrupt("lvcreate")
                   /\ snapshots' \in {snapshots, snapshots + 1}
                   /\ UNCHANGED <<real_source, bdsync>>
    /\ UNCHANGED <<fmt, args, tasks, n, i, config, settings, pipeExc, tempfiles, propagated>>

-----------------------------------------------------------------------------
(* run_bdsync, called inside the try block of process_task.                *)

\* The staging file: get_remote_tempfile, or tempfile.NamedTemporaryFile.
\* An interrupted creation may or may not have left the file.
ObtainTempFile ==
    /\ pc = "mktemp"
    /\ \E out \in {"ok", "fail", "interrupt"} :
         /\ calls' = Append(calls, Call(TempCmd(settings), out))
         /\ interrupted' = (interrupted \/ out = "interrupt")
         /\ CASE out = "ok" ->
                   /\ tempfiles' = tempfiles + 1
                   /\ pc' = "create"
                   /\ UNCHANGED <<exc, pipeExc, bdsync>>
              [] out = "fail" ->
                   /\ EndPipeline(FailureOf(TempCmd(settings)))
                   /\ UNCHANGED tempfiles
              [] out = "interrupt" ->
                   /\ EndPipeline(KeyboardInterrupt(TempCmd(settings)))
                   /\ tempfiles' \in {tempfiles, tempfiles + 1}
    /\ UNCHANGED <<fmt, args, tasks, n, i, config, settings, real_source, snapshots, propagated>>

\* The outcome of a step of run_bdsync that creates and removes nothing: on
\* success the pipeline goes on to `next`, otherwise run_bdsync ends with the
\* exception.
StepOutcome(cmd, out, next) ==
    /\ calls' = Append(calls, Call(cmd, out))
    /\ interrupted' = (interrupted \/ out = "interrupt")
    /\ CASE out = "ok" -> pc' = next /\ UNCHANGED <<exc, pipeExc, bdsync>>
         [] out = "fail" -> EndPipeline(FailureOf(cmd))
         [] out = "interrupt" -> EndPipeline(KeyboardInterrupt(cmd))

\* chain(): bdsync writes the patch into the staging file.
CreatePatch ==
    /\ pc = "create"
    /\ \E out \in {"ok", "fail", "interrupt"} : StepOutcome("bdsync", out, "size")
    /\ UNCHANGED <<fmt, args, tasks, n, i, config, settings, real_source, snapshots, tempfiles,
                   propagated>>

\* sizeof_fmt(int(patch_size_func()))
MeasurePatch ==
    /\ pc = "size"
    /\ \E out \in {"ok", "fail", "interrupt"} :
         StepOutcome(SizeCmd(settings), out, "apply")
    /\ UNCHANGED <<fmt, args, tasks, n, i, config, settings, real_source, snapshots, tempfiles,
                   propagated>>

\* apply_patch(): bdsync --patch reads the staging file.
ApplyPatch ==
    /\ pc = "apply"
    /\ \E out \in {"ok", "fail", "interrupt"} :
         StepOutcome("bdsync --patch", out, "rmtemp")
    /\ UNCHANGED <<fmt, args, tasks, n, i, config, settings, real_source, snapshots, tempfiles,
                   propagated>>

\* The last statement of run_bdsync: rm over the connection, or os.unlink.
\* It is reached only when every earlier step succeeded.
RemoveTempFile ==
    /\ pc = "rmtemp"
    /\ \E out \in {"ok", "fail", "interrupt"} :
         /\ calls' = Append(calls, Call(RemoveCmd(settings), out))
         /\ interrupted' = (interrupted \/ out = "interrupt")
         /\ CASE out = "ok" ->
                   /\ tempfiles' = tempfiles - 1
                   /\ EndPipeline(NoExc)
              [] out = "fail" ->
                   /\ EndPipeline(FailureOf(RemoveCmd(settings)))
                   /\ UNCHANGED tempfiles
              [] out = "interrupt" ->
                   /\ EndPipeline(KeyboardInterrupt(RemoveCmd(settings)))
                   /\ tempfiles' \in {tempfiles, tempfiles - 1}
    /\ UNCHANGED <<fmt, args, tasks, n, i, config, settings, real_source, snapshots, propagated>>

\* finally: cleanup_lvm_snapshot(...): lvremove.  An exception it raises
\* replaces the one that was propagating; otherwise that one goes on.
CleanupLvmSnapshot ==
    /\ pc = "lvremove"
    /\ \E out \in {"ok", "fail", "interrupt"} :
         /\ calls' = Append(calls, Call("lvremove", out))
         /\ interrupted' = (interrupted \/ out = "interrupt")
         /\ CASE out = "ok" ->
                   /\ snapshots' = snapshots - 1
                   /\ pc' = IF exc = NoExc THEN "loop" ELSE "raised"
                   /\ UNCHANGED exc
              [] out = "fail" ->
                   /\ RaiseFromTask(FailureOf("lvremove"))
                   /\ UNCHANGED snapshots
              [] out = "interrupt" ->
                   /\ RaiseFromTask(KeyboardInterrupt("lvremove"))
                   /\ snapshots' \in {snapshots, snapshots - 1}
    /\ UNCHANGED <<fmt, args, tasks, n, i, config, settings, real_source, pipeExc, bdsync,
                   tempfiles, propagated>>

\* An exception leaves process_task and meets the except clauses of the loop.
HandleException ==
    /\ pc = "raised"
    /\ propagated' = propagated \cup {exc}
    /\ pc' = Handler(exc)
    /\ UNCHANGED <<fmt, args, tasks, n, i, config, settings, real_source, exc, pipeExc, bdsync,
                   calls, snapshots, tempfiles, interrupted>>

Next ==
    \/ SelectTasks
    \/ StartTask
    \/ EndRun
    \/ LoadSettings
    \/ ValidateSettings
    \/ LookupVolumeGroup
    \/ PrepareLvmSnapshot
    \/ ObtainTempFile
    \/ CreatePatch
    \/ MeasurePatch
    \/ ApplyPatch
    \/ RemoveTempFile
    \/ CleanupLvmSnapshot
    \/ HandleException

Spec == Init /\ [][Next]_vars

SelectSpec == SelectInit /\ [][Next]_vars

TypeOK ==
    /\ pc \in {"run_bdsync", "composed", "sizeof_fmt", "formatted", "select", "loop", "load", "validate", "lvs", "lvcreate", "mktemp", "create",
               "size", "apply", "rmtemp", "lvremove", "raised", "done",
               "cancelled", "crashed"}
    /\ n = Len(tasks)
    /\ i \in 0..n
    /\ config \in Configs
    /\ bdsync \in {"notrun", "running", "ended"}
    /\ snapshots \in 0..1
    /\ tempfiles \in 0..1
    /\ interrupted \in BOOLEAN

-----------------------------------------------------------------------------
(* sizeof_fmt.  A byte count is written in base 1024, most significant     *)
(* digit first: num /= 1024.0 moves the last digit of the whole part to    *)
(* the front of the fraction.  The counts are those a float holds exactly. *)

LimbValues == {0, 1, 51, 52, 256, 512, 768, 1023}

\* The byte counts: at most MaxLimbs digits, the first one not 0 unless it is
\* the only one, all digits after the first MaxDigits 0.
Sizes ==
    { L \in { D \o [k \in 1..z |-> 0] :
                D \in UNION {[1..l -> LimbValues] : l \in 1..MaxDigits},
                z \in 0..(MaxLimbs - 1) } :
        /\ Len(L) <= MaxLimbs
        /\ Len(L) > 1 => L[1] # 0 }

\* ['','Ki','Mi','Gi','Ti','Pi','Ei','Zi']
Prefixes == <<"", "Ki", "Mi", "Gi", "Ti", "Pi", "Ei", "Zi">>

\* The number the digits L stand for.
RECURSIVE Val(_)
Val(L) == IF L = <<>> THEN 0 ELSE Val(SubSeq(L, 1, Len(L) - 1)) * 1024 + L[Len(L)]

\* m * L + c, in Len(L) + 1 digits.
RECURSIVE Times(_, _, _)
Times(m, L, c) ==
    IF L = <<>> THEN <<c>>
    ELSE LET t == m * L[Len(L)] + c
         IN  Append(Times(m, SubSeq(L, 1, Len(L) - 1), t \div 1024), t % 1024)

\* abs(num) < 1024.0
BelowKibi(x) == Len(x.whole) = 1

\* num /= 1024.0
Divided(x) ==
    [whole |-> SubSeq(x.whole, 1, Len(x.whole) - 1),
     frac |-> <<x.whole[Len(x.whole)]>> \o x.frac]

\* A format that cuts the digits after the first decimal off.
TenthsTruncated(x) == Val(x.whole) * 10 + Times(10, x.frac, 0)[1]

\* "%.1f": the number of tenths nearest to x, the even one of two equally near.
Tenths(x) ==
    LET p == Times(10, x.frac, 0)
        down == Val(x.whole) * 10 + p[1]
        rest == SubSeq(p, 2, Len(p))
        half == rest # <<>> /\ rest[1] = 512 /\ \A k \in 2..Len(rest) : rest[k] = 0
        above == rest # <<>> /\ rest[1] >= 512 /\ ~half
    IN  IF above \/ (half /\ down % 2 = 1) THEN down + 1 ELSE down

\* "%3.1f%s%s" % (num, unit, suffix), suffix = 'B'
Formatted(x, prefix) ==
    ToString(Tenths(x) \div 10) \o "." \o ToString(Tenths(x) % 10) \o prefix \o "B"

\* sizeof_fmt is called with a byte count.
FmtInit ==
    /\ pc = "sizeof_fmt"
    /\ num \in {[whole |-> L, frac |-> <<>>] : L \in Sizes}
    /\ unit = 0
    /\ size_text = Absent
    /\ remote = NoCommand
    /\ sections = <<>>
    /\ selectors = <<>>
    /\ tasks = <<>>
    /\ n = 0
    /\ i = 0
    /\ config = NoConfig
    /\ settings = NoSettings
    /\ real_source = Absent
    /\ exc = NoExc
    /\ pipeExc = NoExc
    /\ bdsync = "notrun"
    /\ calls = <<>>
    /\ snapshots = 0
    /\ tempfiles = 0
    /\ interrupted = FALSE
    /\ propagated = {}

\* for unit in [...]: the test fails, num /= 1024.0 and the next unit.
SizeofFmtDivide ==
    /\ pc = "sizeof_fmt"
    /\ unit < Len(Prefixes)
    /\ ~BelowKibi(num)
    /\ num' = Divided(num)
    /\ unit' = unit + 1
    /\ UNCHANGED <<pc, size_text, remote, args, tasks, n, i, config, settings, real_source,
                   exc, pipeExc, bdsync, calls, snapshots, tempfiles, interrupted,
                   propagated>>

\* return: in the loop with the unit reached, after the loop with 'Yi'.
SizeofFmtReturn ==
    /\ pc = "sizeof_fmt"
    /\ unit = Len(Prefixes) \/ BelowKibi(num)
    /\ size_text' = Formatted(num, IF unit < Len(Prefixes) THEN Prefixes[unit + 1]
                                   ELSE "Yi")
    /\ pc' = "formatted"
    /\ UNCHANGED <<num, unit, remote, args, tasks, n, i, config, settings, real_source,
                   exc, pipeExc, bdsync, calls, snapshots, tempfiles, interrupted,
                   propagated>>

FmtNext ==
    \/ SizeofFmtDivide
    \/ SizeofFmtReturn

FmtSpec == FmtInit /\ [][FmtNext]_vars

-----------------------------------------------------------------------------
(* The remote commands of run_bdsync.  A string is a sequence of pieces: a *)
(* piece is one character of a configured value, or a run of characters    *)
(* the script itself writes, none of them special to a shell.              *)

\* The characters of the configured values: a letter, a space, a single
\* quote and a dollar sign.
ShellChars == {"a", " ", "'", "$"}

\* The configured values, and the file name mktemp answers with.
Tokens == UNION {[1..l -> ShellChars] : l \in 0..MaxTokenLen}

\* shlex.split(connection_command), connection_command = "ssh backup@target"
connection_argv == << <<"ssh">>, <<"backup@target">> >>
connection_command == <<"ssh", " ", "backup@target">>

\* An embedding that leaves the value as it is.
unquoted(s) == s

\* s.replace("'", "'\"'\"'")
RECURSIVE replace_quotes(_)
replace_quotes(s) ==
    IF s = <<>> THEN <<>>
    ELSE (IF s[1] = "'" THEN <<"'", "\"", "'", "\"", "'">> ELSE <<s[1]>>)
           \o replace_quotes(Tail(s))

\* shlex.quote(s)
shlex_quote(s) ==
    IF s = <<>> THEN <<"'", "'">>
    ELSE IF \A k \in DOMAIN s : s[k] \notin {" ", "'", "$"} THEN s
    ELSE <<"'">> \o replace_quotes(s) \o <<"'">>

\* " ".join(words)
RECURSIVE join(_)
join(words) ==
    IF words = <<>> THEN <<>>
    ELSE IF Len(words) = 1 THEN words[1]
    ELSE words[1] \o <<" ">> \o join(Tail(words))

\* "mktemp --tmpdir=%s %s-XXXX.bdsync" % (quote(directory), quote(basename))
mktemp_command(directory, basename) ==
    <<"mktemp", " ", "--tmpdir=">> \o shlex_quote(directory) \o <<" ">>
        \o shlex_quote(basename) \o <<"-XXXX.bdsync">>

\* "%s %s --server" % (connection_command, shlex.quote(remote_bdsync))
server_command(remote_bdsync) ==
    connection_command \o <<" ">> \o shlex_quote(remote_bdsync) \o <<" ", "--server">>

\* "cat > %s" % shlex.quote(remote_patch_file)
cat_command(file) == <<"cat", " ", ">", " ">> \o shlex_quote(file)

\* "stat --format %%s %s" % shlex.quote(remote_patch_file)
stat_command(file) == <<"stat", " ", "--format", " ", "%s", " ">> \o shlex_quote(file)

\* " ".join([shlex.quote(token) for token in ...]) + " < %s" % shlex.quote(file)
apply_command(remote_bdsync, bdsync_args, file) ==
    LET remote_command_tokens == <<remote_bdsync>> \o bdsync_args \o << <<"--patch">> >>
    IN  join([k \in DOMAIN remote_command_tokens |->
                 shlex_quote(remote_command_tokens[k])])
          \o <<" ", "<", " ">> \o shlex_quote(file)

\* "rm %s" % shlex.quote(remote_patch_file)
rm_command(file) == <<"rm", " ">> \o shlex_quote(file)

\* run_bdsync of a remote task is about to compose a command.
QuoteInit ==
    /\ pc = "run_bdsync"
    /\ remote = NoCommand
    /\ num = NoNum
    /\ unit = 0
    /\ size_text = Absent
    /\ sections = <<>>
    /\ selectors = <<>>
    /\ tasks = <<>>
    /\ n = 0
    /\ i = 0
    /\ config = NoConfig
    /\ settings = NoSettings
    /\ real_source = Absent
    /\ exc = NoExc
    /\ pipeExc = NoExc
    /\ bdsync = "notrun"
    /\ calls = <<>>
    /\ snapshots = 0
    /\ tempfiles = 0
    /\ interrupted = FALSE
    /\ propagated = {}

\* The command of a step: the values it is made from, the string, and the
\* argument vector plumbum runs.
Command(step, tokens, text, argv) ==
    [step |-> step, tokens |-> tokens, text |-> text, argv |-> argv]

\* get_remote_tempfile
ComposeMktemp ==
    /\ pc = "run_bdsync"
    /\ \E directory, basename \in Tokens :
         LET text == mktemp_command(directory, basename)
         IN  remote' = Command("mktemp", <<directory, basename>>, text,
                               Append(connection_argv, text))
    /\ pc' = "composed"
    /\ UNCHANGED <<num, unit, size_text, args, tasks, n, i, config, settings,
                   real_source, exc, pipeExc, bdsync, calls, snapshots, tempfiles,
                   interrupted, propagated>>

\* remote_command, and the argument vector of the local bdsync for the
\* source /dev/vg0/root
ComposeCreate ==
    /\ pc = "run_bdsync"
    /\ \E remote_bdsync, target \in Tokens :
         LET text == server_command(remote_bdsync)
         IN  remote' = Command("create", <<remote_bdsync, target>>, text,
                               << <<"bdsync">>, text, <<"/dev/vg0/root">>, target >>)
    /\ pc' = "composed"
    /\ UNCHANGED <<num, unit, size_text, args, tasks, n, i, config, settings,
                   real_source, exc, pipeExc, bdsync, calls, snapshots, tempfiles,
                   interrupted, propagated>>

\* output_command: cat > file
ComposeCat ==
    /\ pc = "run_bdsync"
    /\ \E file \in Tokens :
         LET text == cat_command(file)
         IN  remote' = Command("cat", <<file>>, text, Append(connection_argv, text))
    /\ pc' = "composed"
    /\ UNCHANGED <<num, unit, size_text, args, tasks, n, i, config, settings,
                   real_source, exc, pipeExc, bdsync, calls, snapshots, tempfiles,
                   interrupted, propagated>>

\* patch_size_func: stat
ComposeStat ==
    /\ pc = "run_bdsync"
    /\ \E file \in Tokens :
         LET text == stat_command(file)
         IN  remote' = Command("stat", <<file>>, text, Append(connection_argv, text))
    /\ pc' = "composed"
    /\ UNCHANGED <<num, unit, size_text, args, tasks, n, i, config, settings,
                   real_source, exc, pipeExc, bdsync, calls, snapshots, tempfiles,
                   interrupted, propagated>>

\* apply_patch: the remote bdsync --patch, with no or one extra argument
ComposeApply ==
    /\ pc = "run_bdsync"
    /\ \E remote_bdsync, file \in Tokens :
         \E bdsync_args \in {<<>>} \cup {<<a>> : a \in Tokens} :
           LET text == apply_command(remote_bdsync, bdsync_args, file)
           IN  remote' = Command("apply", <<remote_bdsync>> \o bdsync_args \o <<file>>,
                                 text, Append(connection_argv, text))
    /\ pc' = "composed"
    /\ UNCHANGED <<num, unit, size_text, args, tasks, n, i, config, settings,
                   real_source, exc, pipeExc, bdsync, calls, snapshots, tempfiles,
                   interrupted, propagated>>

\* rm file
ComposeRemove ==
    /\ pc = "run_bdsync"
    /\ \E file \in Tokens :
         LET text == rm_command(file)
         IN  remote' = Command("rm", <<file>>, text, Append(connection_argv, text))
    /\ pc' = "composed"
    /\ UNCHANGED <<num, unit, size_text, args, tasks, n, i, config, settings,
                   real_source, exc, pipeExc, bdsync, calls, snapshots, tempfiles,
                   interrupted, propagated>>

QuoteNext ==
    \/ ComposeMktemp
    \/ ComposeCreate
    \/ ComposeCat
    \/ ComposeStat
    \/ ComposeApply
    \/ ComposeRemove

QuoteSpec == QuoteInit /\ [][QuoteNext]_vars

-----------------------------------------------------------------------------
(* What the properties below speak about.                                  *)

\* The current task did operation cmd with outcome out.
Did(cmd, out) == \E k \in DOMAIN calls : calls[k] = Call(cmd, out)

\* How many times the current task invoked operation cmd.
Count(cmd) == Cardinality({k \in DOMAIN calls : calls[k].cmd = cmd})

\* process_task of the last started task has returned or raised.
TaskEnded == i > 0 /\ pc \in {"loop", "raised", "done", "cancelled", "crashed"}

\* The script has ended.
RunEnded == pc \in {"done", "cancelled", "crashed"}

\* The external tools of the snapshot and of the patch pipeline.
PipelineTools == {"lvcreate", "mktemp", "bdsync", "stat", "bdsync --patch", "rm",
                  "lvremove"}

\* run_bdsync obtained its staging file.
TempFileObtained == Did("mktemp", "ok") \/ Did("NamedTemporaryFile", "ok")

\* Configuration c asks for a snapshot / for a local transfer / is not disabled.
WantsSnapshot(c) == c.lvm_snapshot_enabled = "yes"
LocalMode(c) == c.connection_command = Absent
Enabled(c) == c.disabled \in {Absent, "no"}

\* Configuration c lacks a mandatory field.
MissingMandatory(c) ==
    \/ c.local_bdsync_bin = Absent
    \/ c.remote_bdsync_bin = Absent
    \/ c.source_path = Absent
    \/ c.target_path = Absent
    \/ WantsSnapshot(c) /\ c.lvm_snapshot_size = Absent
    \/ LocalMode(c) /\ c.target_patch_dir = Absent

\* Configuration c fails one of the validation checks that look at it.
FailsValidation(c) ==
    \/ c.local_bdsync_bin \notin Files
    \/ c.source_path \notin Devices
    \/ WantsSnapshot(c) /\ ~LVM_SIZE_REGEX(c.lvm_snapshot_size)
    \/ LocalMode(c) /\ dirname(c.target_path) \notin Dirs
    \/ LocalMode(c) /\ c.target_patch_dir \notin Dirs

\* The keys load_settings reads are usable: the four it always reads are set,
\* the booleans are booleans, and the snapshot size is set when it is read.
Loadable(c) ==
    /\ c.local_bdsync_bin # Absent
    /\ c.remote_bdsync_bin # Absent
    /\ c.source_path # Absent
    /\ c.target_path # Absent
    /\ c.disabled \in {Absent, "yes", "no"}
    /\ c.lvm_snapshot_enabled \in {Absent, "yes", "no"}
    /\ WantsSnapshot(c) => c.lvm_snapshot_size # Absent

-----------------------------------------------------------------------------
(* C1: in every task run whose lvcreate succeeded, lvremove is invoked     *)
(* exactly once, as the last operation of the task and only after          *)
(* run_bdsync has ended, however run_bdsync ended; and lvremove is invoked *)
(* in no other task run.                                                   *)
C1_SnapshotRemovedExactlyOnce ==
    /\ Count("lvremove") <= 1
    /\ \A k \in DOMAIN calls :
         calls[k].cmd = "lvremove" =>
             /\ k = Len(calls)
             /\ bdsync = "ended"
             /\ Did("lvcreate", "ok")
    /\ (TaskEnded /\ Did("lvcreate", "ok")) => Count("lvremove") = 1

\* A task whose lvcreate succeeded and whose create step failed has ended.
C1_Witness ==
    /\ TaskEnded
    /\ Did("lvcreate", "ok")
    /\ Did("bdsync", "fail")
    /\ Count("lvremove") = 1

(* C2: when run_bdsync obtained a staging file and has ended, by success   *)
(* or by a failure of the create step or of the apply step, the staging    *)
(* file has been deleted.                                                  *)
C2_TempFileDeletedAtEnd ==
    ( /\ bdsync = "ended"
      /\ TempFileObtained
      /\ ~interrupted
      /\ pipeExc = NoExc \/ pipeExc.at \in {"bdsync", "bdsync --patch"} )
    => tempfiles = 0

(* C3: a failure of an external tool of the snapshot or of the pipeline is *)
(* caught at the task boundary: it does not end the run, and every later   *)
(* task of the list is started.                                            *)
C3_ToolFailureCaught ==
    ( /\ RunEnded
      /\ ~interrupted
      /\ \E e \in propagated :
           e.type = "ProcessExecutionError" /\ e.at \in PipelineTools )
    => (pc = "done" /\ i = n)

(* C4: a settings error (TaskSettingsError) of load_settings or of         *)
(* validate_settings is caught at the task boundary: it does not end the   *)
(* run, and every later task of the list is started.                       *)
C4_SettingsErrorCaught ==
    ( /\ RunEnded
      /\ ~interrupted
      /\ \E e \in propagated : e.type = "TaskSettingsError" )
    => (pc = "done" /\ i = n)

(* C5: when run_bdsync failed and lvremove then failed too, the exception  *)
(* process_task raises is the one run_bdsync raised.                       *)
C5_PipelineFailureNotMasked ==
    ( /\ pc = "raised"
      /\ pipeExc # NoExc
      /\ Did("lvremove", "fail") )
    => exc = pipeExc

(* C6, as claimed: a task with disabled=true, whatever its other keys are, *)
(* invokes no subprocess and raises no error.                              *)
C6_DisabledTaskQuiet_AnyKeys ==
    (i > 0 /\ config.disabled = "yes" /\ ~interrupted)
    => /\ \A k \in DOMAIN calls : calls[k].cmd \notin Subprocesses
       /\ exc = NoExc
       /\ pc \in {"load", "loop", "done"}

(* C6, amended: a task with disabled=true invokes no subprocess, and when  *)
(* load_settings succeeds on it (its four mandatory keys set, its booleans *)
(* valid, lvm_snapshot_size set if snapshotting is enabled) it raises no   *)
(* error and returns, however invalid the values of its keys are.          *)
C6_DisabledTaskQuiet ==
    (i > 0 /\ config.disabled = "yes")
    => /\ calls = <<>>
       /\ snapshots = 0 /\ tempfiles = 0 /\ bdsync = "notrun"
       /\ (Loadable(config) /\ ~interrupted) =>
              (exc = NoExc /\ pc \in {"load", "loop", "done"})

\* A disabled task with a source device that does not exist, a snapshot
\* size that is no size and no patch directory has returned.
C6_Witness ==
    /\ pc = "loop"
    /\ i > 0
    /\ config.disabled = "yes"
    /\ config.source_path = "/dev/vg0/gone"
    /\ config.lvm_snapshot_enabled = "yes"
    /\ config.lvm_snapshot_size = "5GB"
    /\ config.target_patch_dir = Absent
    /\ settings.disabled

(* C7: an enabled task whose configuration lacks a mandatory field or      *)
(* fails a validation check (the volume-group lookup returning nothing     *)
(* included) never returns normally, and fails before the snapshot, the    *)
(* staging file or any run of the diff tool: the only external command it  *)
(* may have run is lvs.                                                    *)
C7_InvalidTaskFailsEarly ==
    ( /\ i > 0
      /\ Enabled(config)
      /\ \/ MissingMandatory(config)
         \/ FailsValidation(config)
         \/ Did("lvs", "empty") )
    => /\ \A k \in DOMAIN calls : calls[k].cmd = "lvs"
       /\ bdsync = "notrun"
       /\ real_source = Absent
       /\ snapshots = 0 /\ tempfiles = 0
       /\ pc \in {"load", "validate", "lvs", "raised", "cancelled", "crashed"}

\* A snapshotting local task whose patch directory does not exist failed
\* after lvs ran.
C7_Witness ==
    /\ pc = "crashed"
    /\ Enabled(config)
    /\ config.target_patch_dir = "/nodir"
    /\ Did("lvs", "ok")
    /\ exc = Exc("TaskSettingsError", "validate_settings")

(* C8: a configuration that lacks a mandatory field makes load_settings or *)
(* validate_settings fail with a TaskSettingsError and with no other kind  *)
(* of error.                                                               *)
C8_MissingFieldIsSettingsError ==
    ( /\ pc = "raised"
      /\ MissingMandatory(config)
      /\ config.disabled \in {Absent, "yes", "no"}
      /\ config.lvm_snapshot_enabled \in {Absent, "yes", "no"}
      /\ exc.at \in {"load_settings", "validate_settings"}
      /\ exc.type # "KeyboardInterrupt" )
    => exc.type = "TaskSettingsError"

(* C9: when the deletion of the staging file fails after a successful      *)
(* apply, run_bdsync still ends as a success and the task does not fail.   *)
C9_RemoveFailureNotEscalated ==
    ( /\ bdsync = "ended"
      /\ Did("bdsync --patch", "ok")
      /\ Did("rm", "fail") \/ Did("unlink", "fail") )
    => /\ pipeExc = NoExc
       /\ pc \notin {"raised", "crashed"}

(* C10: once a KeyboardInterrupt has arrived during a task, the loop       *)
(* starts no later task and never gets back to its head or to its normal   *)
(* end: the run ends cancelled, or with the exception that replaced the    *)
(* interrupt.                                                              *)
C10_InterruptEndsRun ==
    [][interrupted' => (i' = i /\ pc' \notin {"loop", "load", "done"})]_vars

\* The run was cancelled with tasks of the list left unstarted.
C10_Witness ==
    /\ pc = "cancelled"
    /\ interrupted
    /\ i < n

-----------------------------------------------------------------------------
\* The steps of run_bdsync, in the order of its code.
StepRank(cmd) ==
    CASE cmd \in {"mktemp", "NamedTemporaryFile"} -> 1
      [] cmd = "bdsync" -> 2
      [] cmd \in {"stat", "getsize"} -> 3
      [] cmd = "bdsync --patch" -> 4
      [] cmd \in {"rm", "unlink"} -> 5
      [] OTHER -> 0

IsPipelineCall(c) == StepRank(c.cmd) > 0

\* The operations of run_bdsync in the current task, in the order invoked.
PipelineCalls == SelectSeq(calls, IsPipelineCall)

\* The k-th operation of run_bdsync is step k, and runs only when every
\* earlier step succeeded: so each step runs at most once, apply runs only
\* after a successful create, and a failed create is followed by no
\* measurement and no apply.
C14_StepOrder ==
    \A k \in DOMAIN PipelineCalls :
        /\ StepRank(PipelineCalls[k].cmd) = k
        /\ \A j \in 1..(k - 1) : PipelineCalls[j].out = "ok"

(* C14: the steps of run_bdsync occur in the order temp file, create,      *)
(* measure, apply, delete, each at most once and each only after the       *)
(* success of the one before; and when create fails, run_bdsync ends with  *)
(* a processing failure (TaskProcessingError).                             *)
C14_OrderedStepsAndProcessingFailure ==
    /\ C14_StepOrder
    /\ (bdsync = "ended" /\ Did("bdsync", "fail")) =>
           /\ ~Did("stat", "ok") /\ ~Did("getsize", "ok")
           /\ Count("bdsync --patch") = 0
           /\ pipeExc.type = "TaskProcessingError"

-----------------------------------------------------------------------------
\* validate_settings has been entered by the current task.
Validating == i > 0 /\ settings # NoSettings /\ ~settings.disabled /\ pc # "load"

\* The checks of validate_settings, on the settings it is given.
Check1Fails(s) == s.local_bdsync_bin \notin Files
Check2Fails(s) == s.source_path \notin Devices
Check3Fails(s) == s.lvm /\ ~LVM_SIZE_REGEX(s.snapshot_size)
Check4Fails == Did("lvs", "empty")
Check5Fails(s) == ~IsRemote(s) /\ dirname(s.target_path) \notin Dirs
Check6Fails(s) == ~IsRemote(s) /\ s.target_patch_dir \notin Dirs

\* validate_settings has ended by itself: not by an interrupt, not by a
\* failure of the lvs process.
ValidationRaised ==
    /\ pc \in {"raised", "crashed"}
    /\ exc.at = "validate_settings"
    /\ exc.type # "KeyboardInterrupt"
ValidationPassed == pc = "lvcreate" \/ Did("lvcreate", "ok") \/ bdsync # "notrun"
                    \/ Did("lvcreate", "fail") \/ Did("lvcreate", "interrupt")

(* C16: validate_settings checks, in this order, the local binary, the     *)
(* source device, the snapshot size, the volume-group name, the target's   *)
(* directory and the patch directory; it raises the settings error         *)
(* (TaskSettingsError) of the first check that fails and does nothing      *)
(* after it (no lvs after an earlier failure); the two directory checks    *)
(* are skipped in remote mode; it passes only when no check fails.         *)
C16_ValidationOrder ==
    Validating =>
      LET s == settings
          early == Check1Fails(s) \/ Check2Fails(s) \/ Check3Fails(s)
          late == Check5Fails(s) \/ Check6Fails(s)
      IN  /\ early => Count("lvs") = 0
          /\ (early \/ Check4Fails \/ late) => ~ValidationPassed
          /\ ValidationRaised => /\ exc.type = "TaskSettingsError"
                                 /\ early \/ Check4Fails \/ late
                                 /\ (~early /\ s.lvm) =>
                                        (Check4Fails \/ Did("lvs", "ok"))

-----------------------------------------------------------------------------
(* C17: a task starts only at the head of the loop, when process_task of   *)
(* the task before it has returned: its run_bdsync has ended, the snapshot *)
(* it created has been removed by its last operation, no exception is in   *)
(* flight; and the new task begins with no operation done.                 *)
C17_TasksSequential ==
    [][i' # i =>
         /\ i' = i + 1
         /\ pc = "loop"
         /\ exc = NoExc
         /\ bdsync # "running"
         /\ Did("lvcreate", "ok") => calls[Len(calls)] = Call("lvremove", "ok")
         /\ snapshots = 0 /\ tempfiles = 0
         /\ calls' = <<>>]_vars

\* A snapshotting task has returned and another task is about to start.
C17_Witness ==
    /\ pc = "loop"
    /\ i = 1
    /\ i < n
    /\ Did("lvcreate", "ok")
    /\ Did("lvremove", "ok")

(* C18: at every point of a run at most one snapshot created by the script *)
(* exists and at most one staging file created by the script exists.       *)
C18_AtMostOneSnapshotAndTempFile ==
    /\ snapshots \in 0..1
    /\ tempfiles \in 0..1

\* The second task of a run holds a snapshot and a staging file.
C18_Witness ==
    /\ i = 2
    /\ snapshots = 1
    /\ tempfiles = 1

(* C19: when a KeyboardInterrupt ends run_bdsync in a task whose snapshot  *)
(* was created, lvremove is invoked once before process_task is left, and  *)
(* so before the run ends.                                                 *)
C19_InterruptedPipelineRemovesSnapshot ==
    ( /\ TaskEnded
      /\ Did("lvcreate", "ok")
      /\ pipeExc.type = "KeyboardInterrupt" )
    => /\ Count("lvremove") = 1
       /\ calls[Len(calls)].cmd = "lvremove"

\* A run cancelled in the create step of a snapshotting task removed the
\* snapshot.
C19_Witness ==
    /\ pc = "cancelled"
    /\ pipeExc = KeyboardInterrupt("bdsync")
    /\ Did("lvcreate", "ok")
    /\ Did("lvremove", "ok")
    /\ snapshots = 0

(* C20: when lvcreate fails, run_bdsync is not started and lvremove is not *)
(* invoked in that task: lvcreate is its last operation; and lvremove is   *)
(* only ever invoked in a task whose lvcreate succeeded.                   *)
C20_NoRemovalWithoutSnapshot ==
    /\ Did("lvcreate", "fail") =>
           /\ bdsync = "notrun"
           /\ real_source = Absent
           /\ Count("lvremove") = 0
           /\ calls[Len(calls)] = Call("lvcreate", "fail")
    /\ Count("lvremove") > 0 => Did("lvcreate", "ok")

\* A task whose lvcreate failed has ended the run.
C20_Witness ==
    /\ pc = "crashed"
    /\ Did("lvcreate", "fail")
    /\ exc = Exc("ProcessExecutionError", "lvcreate")

-----------------------------------------------------------------------------
\* The position in calls of the first operation named cmd, 0 if there is none.
FirstCall(cmd) ==
    IF Count(cmd) = 0 THEN 0
    ELSE CHOOSE k \in DOMAIN calls :
             calls[k].cmd = cmd /\ \A j \in 1..(k - 1) : calls[j].cmd # cmd

\* The snapshot name of configuration c.
SnapshotNameOf(c) ==
    IF c.lvm_snapshot_name = Absent THEN "bdsync-snapshot" ELSE c.lvm_snapshot_name

(* C15: in a snapshotting task run_bdsync starts only after lvcreate has   *)
(* succeeded, and the source it is given is /dev/<volume group>/<snapshot  *)
(* name>, not source_path; in a task without snapshotting the source is    *)
(* source_path and neither lvcreate nor lvremove is invoked.               *)
C15_SourceIsSnapshot ==
    /\ (i > 0 /\ bdsync # "notrun" /\ WantsSnapshot(config)) =>
           /\ Did("lvcreate", "ok")
           /\ \A k \in DOMAIN calls :
                  IsPipelineCall(calls[k]) => FirstCall("lvcreate") < k
           /\ \E vg \in VolumeGroups :
                  /\ Did("lvs", "ok")
                  /\ settings.vg_name = vg
                  /\ real_source = "/dev/" \o vg \o "/" \o SnapshotNameOf(config)
           /\ real_source # config.source_path
    /\ (i > 0 /\ bdsync # "notrun" /\ ~WantsSnapshot(config)) =>
           real_source = config.source_path
    /\ (i > 0 /\ ~WantsSnapshot(config)) =>
           Count("lvcreate") = 0 /\ Count("lvremove") = 0

\* The create step of a snapshotting task ran on the snapshot named in the
\* configuration, in the volume group lvs named.
C15_Witness ==
    /\ Did("bdsync", "ok")
    /\ config.source_path = "/dev/vg0/root"
    /\ real_source = "/dev/vg1/nightly"

-----------------------------------------------------------------------------
\* The positions of the --task names that are section names.
KnownSelectors ==
    {k \in DOMAIN selectors : \E s \in DOMAIN sections : sections[s] = selectors[k]}

\* The position in the --task list of the j-th name that is a section name.
NthKnown(j) ==
    CHOOSE k \in KnownSelectors : Cardinality({l \in KnownSelectors : l <= k}) = j

\* The tasks the run is to process: the --task names that name a section, in
\* the order given, or every section when there is no --task.
ToProcess ==
    IF selectors = <<>> THEN sections
    ELSE [j \in 1..Cardinality(KnownSelectors) |-> selectors[NthKnown(j)]]

\* The tasks process_task was called for, in the order of the calls.
Processed == SubSeq(tasks, 1, i)

\* The task list is the selection: no unknown name is in it, and every
\* --task name that is a section is, in its place.
C11_TaskListIsSelection == pc # "select" => tasks = ToProcess

(* C11: a run that no interrupt ended has processed exactly the --task     *)
(* names that are configured sections, in the order given, and every       *)
(* configured section when there is no --task.                             *)
C11_SelectedTasksProcessed ==
    (RunEnded /\ ~interrupted) => Processed = ToProcess

-----------------------------------------------------------------------------
\* The byte count sizeof_fmt was called with, in base 1024.
ByteCount == num.whole \o num.frac

\* The binary prefix of 1024^k.
BinaryPrefix(k) ==
    CASE k = 0 -> "" [] k = 1 -> "Ki" [] k = 2 -> "Mi" [] k = 3 -> "Gi"
      [] k = 4 -> "Ti" [] k = 5 -> "Pi" [] k = 6 -> "Ei" [] k = 7 -> "Zi"
      [] OTHER -> "Yi"

\* The numbers t of tenths with |t/10 - L/1024^k| <= 1/20, that is with
\* 2t-1 <= 20L/1024^k <= 2t+1; where two are equally near, the even one.
NearestTenths(L, k) ==
    LET q == Times(20, L, 0)
        top == Val(SubSeq(q, 1, Len(q) - k))
        exact == \A j \in (Len(q) - k + 1)..Len(q) : q[j] = 0
    IN  { t \in {top \div 2, top \div 2 + 1} :
            /\ \/ top \in {2 * t - 1, 2 * t}
               \/ top = 2 * t + 1 /\ exact
            /\ (exact /\ top \in {2 * t - 1, 2 * t + 1}) => t % 2 = 0 }

(* C13: sizeof_fmt divides by 1024 as often as it takes to get below 1024, *)
(* and returns the number of tenths nearest to the quotient, written with  *)
(* one decimal, then the binary prefix of that power of 1024, then B;      *)
(* 0 gives "0.0B", 1536 "1.5KiB" and 1099511627776 "1.0TiB".               *)
C13_BinaryPrefixOneDecimal ==
    pc = "formatted" =>
      /\ unit = Len(ByteCount) - 1
      /\ Len(num.whole) = 1 /\ num.whole[1] < 1024
      /\ \E t \in NearestTenths(ByteCount, unit) :
            size_text = ToString(t \div 10) \o "." \o ToString(t % 10)
                          \o BinaryPrefix(unit) \o "B"
      /\ ByteCount = <<0>> => size_text = "0.0B"
      /\ ByteCount = <<1, 512>> => size_text = "1.5KiB"
      /\ ByteCount = <<1, 0, 0, 0, 0>> => size_text = "1.0TiB"

\* 1099511627776 = 1024^4 has been formatted.
C13_Witness ==
    /\ pc = "formatted"
    /\ ByteCount = <<1, 0, 0, 0, 0>>
    /\ unit = 4
    /\ size_text = "1.0TiB"

-----------------------------------------------------------------------------
(* What a POSIX shell makes of a command string: the words, with what a    *)
(* redirection, an expansion or an open quote leaves in their place.       *)

Item(kind, text) == [kind |-> kind, text |-> text]
Word(text) == Item("word", text)

\* The items of the string text, read in mode "plain", "single" (inside '...')
\* or "double" (inside "..."), with the word begun (open) and the items so far.
RECURSIVE Sh(_, _, _, _, _)
Sh(text, mode, open, word, out) ==
    IF text = <<>>
    THEN IF mode # "plain" THEN Append(out, Item("open quote", word))
         ELSE IF open THEN Append(out, Word(word)) ELSE out
    ELSE LET c == Head(text)
             r == Tail(text)
             flushed == IF open THEN Append(out, Word(word)) ELSE out
         IN  CASE mode = "single" ->
                    IF c = "'" THEN Sh(r, "plain", TRUE, word, out)
                    ELSE Sh(r, "single", TRUE, Append(word, c), out)
               [] mode = "double" ->
                    IF c = "\"" THEN Sh(r, "plain", TRUE, word, out)
                    ELSE IF c = "$"
                         THEN Sh(r, "double", TRUE, word, Append(out, Item("expansion", <<c>>)))
                    ELSE Sh(r, "double", TRUE, Append(word, c), out)
               [] OTHER ->
                    IF c = " " THEN Sh(r, "plain", FALSE, <<>>, flushed)
                    ELSE IF c = "'" THEN Sh(r, "single", TRUE, word, out)
                    ELSE IF c = "\"" THEN Sh(r, "double", TRUE, word, out)
                    ELSE IF c = "$"
                         THEN Sh(r, "plain", open, word, Append(out, Item("expansion", <<c>>)))
                    ELSE IF c \in {"<", ">"}
                         THEN Sh(r, "plain", FALSE, <<>>, Append(flushed, Item("redirection", <<c>>)))
                    ELSE Sh(r, "plain", TRUE, Append(word, c), out)

ShellItems(text) == Sh(text, "plain", FALSE, <<>>, <<>>)

\* The words the values vs are to arrive as.
Words(vs) == [k \in DOMAIN vs |-> Word(vs[k])]

(* C12: the remote shell reads every composed command string as the words  *)
(* the script means: the staging directory, the target's base name, the    *)
(* temp-file path, the remote tool path and each extra argument of the     *)
(* apply command arrive as they are configured, each inside one word,      *)
(* whatever spaces, quotes or dollar signs they hold; the string itself    *)
(* and the source and target are single elements of the argument vector.   *)
C12_RemoteTokensEscaped ==
    pc = "composed" =>
      LET tk == remote.tokens
          items == ShellItems(remote.text)
          last == tk[Len(tk)]
      IN  /\ remote.step = "mktemp" =>
                items = Words(<< <<"mktemp">>, <<"--tmpdir=">> \o tk[1],
                                 tk[2] \o <<"-XXXX.bdsync">> >>)
          /\ remote.step = "create" =>
                /\ items = Words(<< <<"ssh">>, <<"backup@target">>, tk[1], <<"--server">> >>)
                /\ remote.argv = << <<"bdsync">>, remote.text, <<"/dev/vg0/root">>, tk[2] >>
          /\ remote.step = "cat" =>
                items = << Word(<<"cat">>), Item("redirection", <<">">>), Word(tk[1]) >>
          /\ remote.step = "stat" =>
                items = Words(<< <<"stat">>, <<"--format">>, <<"%s">>, tk[1] >>)
          /\ remote.step = "apply" =>
                items = Words(SubSeq(tk, 1, Len(tk) - 1) \o << <<"--patch">> >>)
                          \o << Item("redirection", <<"<">>), Word(last) >>
          /\ remote.step = "rm" =>
                items = Words(<< <<"rm">>, tk[1] >>)
          /\ remote.step # "create" =>
                remote.argv = << <<"ssh">>, <<"backup@target">>, remote.text >>

\* The apply command was composed for a tool path with a space, an extra
\* argument that is a quote and a dollar sign, and a temp file.
C12_Witness ==
    /\ pc = "composed"
    /\ remote.step = "apply"
    /\ remote.tokens = << <<"a", " ">>, <<"'", "$">>, <<"a">> >>
    /\ remote.text = <<"'", "a", " ", "'", " ",
                       "'", "'", "\"", "'", "\"", "'", "$", "'", " ",
                       "--patch", " ", "<", " ", "a">>

====
